---- MODULE Spec2Model ----
(***************************************************************************)
(* Model of alvan-lic: LicenseGenerator (src/src/generator.ts) and          *)
(* LicenseValidator (src/src/validator.ts).                                 *)
(*                                                                          *)
(* Strings and Buffers are sequences of character codes / byte values.      *)
(* Instants are integers in milliseconds since the epoch; a JavaScript      *)
(* number that may be NaN is a record [nan, val].  A duration `hours` is a  *)
(* fixed-point number counted in units of 1/HoursScale hour, so that        *)
(* hours * 60 * 60 * 1000 is hours.val / 2 milliseconds exactly (binary     *)
(* floating-point rounding of that product is not modelled).                *)
(***************************************************************************)
EXTENDS Integers, Sequences, FiniteSets, TLC

\* ------------------------------------------------------------------ bounds
\* largest number of characters a tamper step replaces at the end of a token
MaxTrailing == 3

\* ------------------------------------------------------------- JS numbers
Num(v) == [nan |-> FALSE, val |-> v]
NaN == [nan |-> TRUE, val |-> 0]

\* 60 * 60 * 1000 (generator.ts:67, validator.ts:168)
HOUR_MS == 60 * 60 * 1000
\* hours are counted in half-millisecond units: 1 hour = HoursScale units
HoursScale == 2 * HOUR_MS

\* TimeClip of new Date(x): x given in half-milliseconds, truncated toward 0
TimeClip2(x2) == IF x2 >= 0 THEN x2 \div 2 ELSE -((-x2) \div 2)

\* FloorSeconds rounding to the nearest second: Math.round(ms / 1000)
FloorSecondsRound(ms) == (ms + 500) \div 1000

\* FloorSeconds rounding up: Math.ceil(ms / 1000)
FloorSecondsCeil(ms) == -((-ms) \div 1000)

\* Math.floor(ms / 1000)
FloorSeconds(ms) == ms \div 1000

\* ---------------------------------------------------------------- strings
RECURSIVE Digits(_)
Digits(n) == IF n < 10 THEN <<48 + n>> ELSE Digits(n \div 10) \o <<48 + (n % 10)>>

\* template-literal conversion of a number: decimal digits, "-" sign, "NaN"
NumberToString(x) ==
  IF x.nan THEN <<78, 97, 78>>
  ELSE IF x.val < 0 THEN <<45>> \o Digits(-x.val) ELSE Digits(x.val)

\* String.prototype.trim: WhiteSpace and LineTerminator code units
IsWhiteSpace(c) ==
  c \in {9, 10, 11, 12, 13, 32, 160, 5760, 8232, 8233, 8239, 8287, 12288, 65279}
     \cup (8192..8202)

RECURSIVE TrimStart(_)
TrimStart(s) ==
  IF s # <<>> /\ IsWhiteSpace(Head(s)) THEN TrimStart(Tail(s)) ELSE s

RECURSIVE TrimEnd(_)
TrimEnd(s) ==
  IF s # <<>> /\ IsWhiteSpace(s[Len(s)]) THEN TrimEnd(SubSeq(s, 1, Len(s) - 1)) ELSE s

Trim(s) == TrimEnd(TrimStart(s))

StartsWith(s, p) == Len(s) >= Len(p) /\ SubSeq(s, 1, Len(p)) = p

\* String.prototype.replace(/a/g, b) for one character
ReplaceAll(s, a, b) == [i \in 1..Len(s) |-> IF s[i] = a THEN b ELSE s[i]]

\* String.prototype.replace(/a/g, '')
RemoveAll(s, a) == SelectSeq(s, LAMBDA c : c # a)

\* index of the first element equal to x, 0 when absent (JS: -1)
\* IndexOf finding the last occurrence: lastIndexOf
IndexOfLast(s, x) ==
  IF \E i \in 1..Len(s) : s[i] = x
  THEN CHOOSE i \in 1..Len(s) : s[i] = x /\ \A j \in (i + 1)..Len(s) : s[j] # x
  ELSE 0

IndexOf(s, x) ==
  IF \E i \in 1..Len(s) : s[i] = x
  THEN CHOOSE i \in 1..Len(s) : s[i] = x /\ \A j \in 1..(i - 1) : s[j] # x
  ELSE 0

\* String.prototype.split(sep) for a one-character separator
RECURSIVE Split(_, _)
Split(s, sep) ==
  LET i == IndexOf(s, sep)
  IN IF i = 0 THEN <<s>>
     ELSE <<SubSeq(s, 1, i - 1)>> \o Split(SubSeq(s, i + 1, Len(s)), sep)

\* 'alvan-' (generator.ts:118)
LICENSE_PREFIX == <<97, 108, 118, 97, 110, 45>>

\* ----------------------------------------------------------------- base64
\* the standard base64 alphabet, as Buffer.toString('base64') emits it
Base64Char(v) ==
  IF v < 26 THEN 65 + v
  ELSE IF v < 52 THEN 97 + (v - 26)
  ELSE IF v < 62 THEN 48 + (v - 52)
  ELSE IF v = 62 THEN 43 ELSE 47

\* Buffer.toString('base64'): 3 bytes -> 4 characters, '=' padded
Base64Encode(buffer) ==
  LET n == Len(buffer)
      B(i) == IF i <= n THEN buffer[i] ELSE 0
      Sextet(g, k) ==
        LET b0 == B(3 * g + 1)  b1 == B(3 * g + 2)  b2 == B(3 * g + 3)
        IN CASE k = 0 -> b0 \div 4
             [] k = 1 -> (b0 % 4) * 16 + b1 \div 16
             [] k = 2 -> (b1 % 16) * 4 + b2 \div 64
             [] OTHER -> b2 % 64
  IN [j \in 1..(4 * ((n + 2) \div 3)) |->
        LET g == (j - 1) \div 4
            k == (j - 1) % 4
        IN IF 3 * g + k > n THEN 61 ELSE Base64Char(Sextet(g, k))]

\* generator.ts toBase64Url: '+' -> '-', '/' -> '_', '=' removed
toBase64Url(buffer) ==
  RemoveAll(ReplaceAll(ReplaceAll(Base64Encode(buffer), 43, 45), 47, 95), 61)

\* value of a base64 character for Buffer.from(s, 'base64'); 64 = illegal.
\* The decoder accepts the standard and the URL-safe alphabet alike.
Unbase64(c) ==
  IF c \in 65..90 THEN c - 65
  ELSE IF c \in 97..122 THEN c - 97 + 26
  ELSE IF c \in 48..57 THEN c - 48 + 52
  ELSE IF c \in {43, 45} THEN 62
  ELSE IF c \in {47, 95} THEN 63
  ELSE 64

\* Buffer.from(s, 'base64'): never throws; characters outside the alphabet
\* are skipped, decoding stops at the first '=', a trailing partial group
\* of k characters yields floor(6k / 8) bytes and its spare bits are dropped
Base64Decode(s) ==
  LET eq    == IndexOf(s, 61)
      upto  == IF eq = 0 THEN s ELSE SubSeq(s, 1, eq - 1)
      legal == SelectSeq(upto, LAMBDA c : Unbase64(c) < 64)
      v(i)  == Unbase64(legal[i])
  IN [j \in 1..((6 * Len(legal)) \div 8) |->
        LET g == (j - 1) \div 3
            r == (j - 1) % 3
        IN CASE r = 0 -> (v(4 * g + 1) * 4 + v(4 * g + 2) \div 16) % 256
             [] r = 1 -> ((v(4 * g + 2) % 16) * 16 + v(4 * g + 3) \div 4) % 256
             [] OTHER -> ((v(4 * g + 3) % 4) * 64 + v(4 * g + 4)) % 256]

\* '='.repeat(n)
RECURSIVE Repeat(_, _)
Repeat(c, n) == IF n <= 0 THEN <<>> ELSE <<c>> \o Repeat(c, n - 1)

\* validator.ts fromBase64Url: re-pad to a multiple of 4, '-' -> '+',
\* '_' -> '/', Buffer.from(.., 'base64').  The result records whether the
\* decoder threw; Buffer.from does not throw for any string.
fromBase64Url(str) ==
  LET paddingNeeded == 4 - (Len(str) % 4)
      padded == IF paddingNeeded # 4 THEN str \o Repeat(61, paddingNeeded) ELSE str
      base64 == ReplaceAll(ReplaceAll(padded, 45, 43), 95, 47)
  IN [threw |-> FALSE, data |-> Base64Decode(base64)]

\* ------------------------------------------------------------ HMAC-SHA256
\* digest size of SHA-256 in bytes
DIGEST_SIZE == 32

\* HMAC key preparation (RFC 2104): a key shorter than the block size is
\* padded with zero bytes, so trailing zero bytes of the key do not matter
RECURSIVE KeyBlock(_)
KeyBlock(key) ==
  IF key # <<>> /\ key[Len(key)] = 0 THEN KeyBlock(SubSeq(key, 1, Len(key) - 1)) ELSE key

Mix(h, b) == (h * 131 + b + 1) % 65521

RECURSIVE Absorb(_, _)
Absorb(h, bytes) == IF bytes = <<>> THEN h ELSE Absorb(Mix(h, Head(bytes)), Tail(bytes))

\* createHmac('sha256', key).update(message).digest(): a deterministic keyed
\* function of (key, message) with a 32-byte result.  SHA-256 itself is
\* abstracted by a small mixing function; its collision resistance is the
\* assumption that the distinct (key block, message) pairs of the model get
\* distinct digests.
Hmac(key, message) ==
  LET h == Absorb(Mix(Absorb(7, KeyBlock(key)), 256), message)
  IN [i \in 1..DIGEST_SIZE |->
        (((h + 1) * (2 * i + 1) + i * i) \div (IF i % 2 = 0 THEN 16 ELSE 1)) % 256]

\* crypto.timingSafeEqual: throws a RangeError when the lengths differ
timingSafeEqual(a, b) ==
  IF Len(a) # Len(b) THEN "RangeError" ELSE IF a = b THEN "true" ELSE "false"

\* --------------------------------------------------------------- parseInt
RECURSIVE DigitsValue(_, _)
DigitsValue(s, acc) ==
  IF s # <<>> /\ Head(s) \in 48..57
  THEN DigitsValue(Tail(s), acc * 10 + (Head(s) - 48)) ELSE acc

\* parseInt(s, 10): leading white space skipped, optional sign, the longest
\* run of digits; anything after it is ignored; NaN when there is no digit
parseInt(str) ==
  LET s    == TrimStart(str)
      neg  == s # <<>> /\ Head(s) = 45
      body == IF s # <<>> /\ Head(s) \in {43, 45} THEN Tail(s) ELSE s
  IN IF body = <<>> \/ Head(body) \notin 48..57 THEN NaN
     ELSE Num((IF neg THEN -1 ELSE 1) * DigitsValue(body, 0))

\* -------------------------------------------------------------- generator
\* the result of a call: a returned string or a thrown Error; hmacs counts
\* the HMAC computations the call made
GenThrow == [threw |-> TRUE, value |-> <<>>, payload |-> <<>>, signature |-> <<>>,
             issuedTimestamp |-> NaN, expiresTimestamp |-> NaN, hmacs |-> 0]

\* LicenseGenerator.generateKeyWithTimestamp(hours, issuedAt) on an instance
\* holding secretKey.  issuedAt is [kind, time]: a Date with time value
\* `time` (NaN for an Invalid Date) or undefined.
generateKeyWithTimestamp(secretKey, hours, issuedAt) ==
  IF ~hours.nan /\ hours.val <= 0 THEN GenThrow
  ELSE IF issuedAt.kind # "Date" \/ issuedAt.time.nan THEN GenThrow
  ELSE
    LET expiresAt == IF hours.nan THEN NaN
                     ELSE Num(TimeClip2(2 * issuedAt.time.val + hours.val))
        issuedTimestamp  == Num(FloorSeconds(issuedAt.time.val))
        expiresTimestamp == IF expiresAt.nan THEN NaN
                            ELSE Num(FloorSeconds(expiresAt.val))
        payload   == NumberToString(issuedTimestamp) \o <<58>>
                       \o NumberToString(expiresTimestamp)
        signature == Hmac(secretKey, payload)
        data      == payload \o <<46>> \o signature
        encoded   == toBase64Url(data)
    IN [threw |-> FALSE, value |-> LICENSE_PREFIX \o encoded,
        payload |-> payload, signature |-> signature,
        issuedTimestamp |-> issuedTimestamp,
        expiresTimestamp |-> expiresTimestamp, hmacs |-> 1]

\* -------------------------------------------------------------- validator
\* a JavaScript value handed in as licenseKey
Str(s) == [type |-> "string", str |-> s, num |-> 0]
Falsy(x) ==
  \/ x.type \in {"undefined", "null"}
  \/ x.type = "string" /\ x.str = <<>>
  \/ x.type = "number" /\ x.num = 0

\* the outcome of a validation call: kind is "LicenseInfo" (returned),
\* "LicenseError" (thrown, with its type) or "RangeError" (thrown by
\* timingSafeEqual).  gate names the gate that ended the call; decoded and
\* hmacs record the work done.  hoursRemaining is counted in 1/HOUR_MS hour.
Outcome(kind, type, gate, decoded, hmacs) ==
  [kind |-> kind, type |-> type, gate |-> gate, decoded |-> decoded, hmacs |-> hmacs,
   isValid |-> FALSE, issuedAt |-> 0, expiresAt |-> 0, hoursRemaining |-> 0]

Throw(type, gate, decoded, hmacs) == Outcome("LicenseError", type, gate, decoded, hmacs)

Max(a, b) == IF a >= b THEN a ELSE b

\* TemporalGate with the boundary moved: a key still passes at expires_at
TemporalGateInclusive(issuedTimestamp, expiresTimestamp, currentTime) ==
  LET issuedAt  == issuedTimestamp * 1000
      expiresAt == expiresTimestamp * 1000
      isValid   == currentTime <= expiresAt
      hoursRemaining == IF isValid THEN Max(0, expiresAt - currentTime) ELSE 0
  IN IF ~isValid THEN Throw("EXPIRED", "temporal", TRUE, 1)
     ELSE [Outcome("LicenseInfo", "", "done", TRUE, 1) EXCEPT
             !.isValid = TRUE, !.issuedAt = issuedAt,
             !.expiresAt = expiresAt, !.hoursRemaining = hoursRemaining]

\* TemporalGate without the throw: an expired key is returned as a
\* LicenseInfo with isValid = false and hoursRemaining = 0
TemporalGateNoThrow(issuedTimestamp, expiresTimestamp, currentTime) ==
  LET issuedAt  == issuedTimestamp * 1000
      expiresAt == expiresTimestamp * 1000
      isValid   == currentTime < expiresAt
      hoursRemaining == IF isValid THEN Max(0, expiresAt - currentTime) ELSE 0
  IN [Outcome("LicenseInfo", "", "done", TRUE, 1) EXCEPT
        !.isValid = isValid, !.issuedAt = issuedAt,
        !.expiresAt = expiresAt, !.hoursRemaining = hoursRemaining]

\* TemporalGate reporting whole hours: Math.floor of the hours left
TemporalGateWholeHours(issuedTimestamp, expiresTimestamp, currentTime) ==
  LET issuedAt  == issuedTimestamp * 1000
      expiresAt == expiresTimestamp * 1000
      isValid   == currentTime < expiresAt
      hoursRemaining == IF isValid
                        THEN Max(0, ((expiresAt - currentTime) \div HOUR_MS) * HOUR_MS)
                        ELSE 0
  IN IF ~isValid THEN Throw("EXPIRED", "temporal", TRUE, 1)
     ELSE [Outcome("LicenseInfo", "", "done", TRUE, 1) EXCEPT
             !.isValid = isValid, !.issuedAt = issuedAt,
             !.expiresAt = expiresAt, !.hoursRemaining = hoursRemaining]

\* TemporalGate reporting the time used up: currentTime - issuedAt
TemporalGateElapsed(issuedTimestamp, expiresTimestamp, currentTime) ==
  LET issuedAt  == issuedTimestamp * 1000
      expiresAt == expiresTimestamp * 1000
      isValid   == currentTime < expiresAt
      hoursRemaining == IF isValid THEN Max(0, currentTime - issuedAt) ELSE 0
  IN IF ~isValid THEN Throw("EXPIRED", "temporal", TRUE, 1)
     ELSE [Outcome("LicenseInfo", "", "done", TRUE, 1) EXCEPT
             !.isValid = isValid, !.issuedAt = issuedAt,
             !.expiresAt = expiresAt, !.hoursRemaining = hoursRemaining]

\* TemporalGate with a not-before check: a key is refused before issued_at
TemporalGateNotBefore(issuedTimestamp, expiresTimestamp, currentTime) ==
  LET issuedAt  == issuedTimestamp * 1000
      expiresAt == expiresTimestamp * 1000
      isValid   == currentTime < expiresAt
      hoursRemaining == IF isValid THEN Max(0, expiresAt - currentTime) ELSE 0
  IN IF currentTime < issuedAt THEN Throw("INVALID_DATA", "temporal", TRUE, 1)
     ELSE IF ~isValid THEN Throw("EXPIRED", "temporal", TRUE, 1)
     ELSE [Outcome("LicenseInfo", "", "done", TRUE, 1) EXCEPT
             !.isValid = isValid, !.issuedAt = issuedAt,
             !.expiresAt = expiresAt, !.hoursRemaining = hoursRemaining]

\* TemporalGate with the comparison turned round: valid after expires_at
TemporalGateReversed(issuedTimestamp, expiresTimestamp, currentTime) ==
  LET issuedAt  == issuedTimestamp * 1000
      expiresAt == expiresTimestamp * 1000
      isValid   == currentTime > expiresAt
      hoursRemaining == IF isValid THEN Max(0, expiresAt - currentTime) ELSE 0
  IN IF ~isValid THEN Throw("EXPIRED", "temporal", TRUE, 1)
     ELSE [Outcome("LicenseInfo", "", "done", TRUE, 1) EXCEPT
             !.isValid = isValid, !.issuedAt = issuedAt,
             !.expiresAt = expiresAt, !.hoursRemaining = hoursRemaining]

\* validator.ts:165-180, the temporal gate
TemporalGate(issuedTimestamp, expiresTimestamp, currentTime) ==
  LET issuedAt  == issuedTimestamp * 1000
      expiresAt == expiresTimestamp * 1000
      isValid   == currentTime < expiresAt
      hoursRemaining == IF isValid THEN Max(0, expiresAt - currentTime) ELSE 0
  IN IF ~isValid THEN Throw("EXPIRED", "temporal", TRUE, 1)
     ELSE [Outcome("LicenseInfo", "", "done", TRUE, 1) EXCEPT
             !.isValid = isValid, !.issuedAt = issuedAt,
             !.expiresAt = expiresAt, !.hoursRemaining = hoursRemaining]

\* PayloadGate without the ordering check of validator.ts:152-154
PayloadGateNoOrdering(payload, currentTime) ==
  LET parts == Split(payload, 58)
  IN IF Len(parts) # 2 THEN Throw("INVALID_FORMAT", "payload", TRUE, 1)
     ELSE
       LET issuedPart  == parts[1]
           expiresPart == parts[2]
           issuedTimestamp  == parseInt(issuedPart)
           expiresTimestamp == parseInt(expiresPart)
       IN IF issuedPart = <<>> \/ expiresPart = <<>>
            THEN Throw("TIME_ERROR", "payload", TRUE, 1)
          ELSE IF issuedTimestamp.nan \/ expiresTimestamp.nan
            THEN Throw("TIME_ERROR", "payload", TRUE, 1)
          ELSE IF issuedTimestamp.val <= 0 \/ expiresTimestamp.val <= 0
            THEN Throw("INVALID_DATA", "payload", TRUE, 1)
          ELSE TemporalGate(issuedTimestamp.val, expiresTimestamp.val, currentTime)

\* validator.ts:119-154, the payload parse gate
PayloadGate(payload, currentTime) ==
  LET parts == Split(payload, 58)
  IN IF Len(parts) # 2 THEN Throw("INVALID_FORMAT", "payload", TRUE, 1)
     ELSE
       LET issuedPart  == parts[1]
           expiresPart == parts[2]
           issuedTimestamp  == parseInt(issuedPart)
           expiresTimestamp == parseInt(expiresPart)
       IN \* an error thrown inside the try block is rethrown as a time error
          IF issuedPart = <<>> \/ expiresPart = <<>>
            THEN Throw("TIME_ERROR", "payload", TRUE, 1)
          ELSE IF issuedTimestamp.nan \/ expiresTimestamp.nan
            THEN Throw("TIME_ERROR", "payload", TRUE, 1)
          ELSE IF issuedTimestamp.val <= 0 \/ expiresTimestamp.val <= 0
            THEN Throw("INVALID_DATA", "payload", TRUE, 1)
          ELSE IF expiresTimestamp.val <= issuedTimestamp.val
            THEN Throw("INVALID_DATA", "payload", TRUE, 1)
          ELSE TemporalGate(issuedTimestamp.val, expiresTimestamp.val, currentTime)

\* validator.ts:114-117, the comparison of the two signatures, and what
\* follows it
CompareGate(providedSignature, expectedSignature, payload, currentTime) ==
  LET equal == timingSafeEqual(providedSignature, expectedSignature)
  IN IF equal = "RangeError" THEN Outcome("RangeError", "", "signature", TRUE, 1)
     ELSE IF equal = "false" THEN Throw("INVALID_SIGNATURE", "signature", TRUE, 1)
     ELSE PayloadGate(payload, currentTime)

\* SignatureGate without the structure gate: data.slice(0, -1) and
\* data.slice(0) stand in for the two parts when there is no separator
SignatureGateNoStructure(secretKey, data, currentTime) ==
  LET separatorIndex == IndexOf(data, 46)
      payload == IF separatorIndex = 0 THEN SubSeq(data, 1, Len(data) - 1)
                 ELSE SubSeq(data, 1, separatorIndex - 1)
      providedSignature == SubSeq(data, separatorIndex + 1, Len(data))
      expectedSignature == Hmac(secretKey, payload)
  IN CompareGate(providedSignature, expectedSignature, payload, currentTime)

\* validator.ts:99-117, the structure gate and the signature gate
SignatureGate(secretKey, data, currentTime) ==
  LET separatorIndex == IndexOf(data, 46)
  IN IF separatorIndex = 0 THEN Throw("INVALID_FORMAT", "structure", TRUE, 0)
     ELSE
       LET payload == SubSeq(data, 1, separatorIndex - 1)
           providedSignature == SubSeq(data, separatorIndex + 1, Len(data))
           expectedSignature == Hmac(secretKey, payload)
       IN CompareGate(providedSignature, expectedSignature, payload, currentTime)

\* validateKeyAtTime without the prefix check of validator.ts:85-87
validateKeyAtTimeNoPrefixCheck(secretKey, licenseKey, currentTime) ==
  IF Falsy(licenseKey) \/ licenseKey.type # "string"
    THEN Throw("INVALID_FORMAT", "format", FALSE, 0)
  ELSE
    LET encoded == SubSeq(licenseKey.str, Len(LICENSE_PREFIX) + 1, Len(licenseKey.str))
        decode  == fromBase64Url(encoded)
    IN IF decode.threw THEN Throw("BASE64_ERROR", "decode", TRUE, 0)
       ELSE SignatureGate(secretKey, decode.data, currentTime)

\* LicenseValidator.validateKeyAtTime(licenseKey, currentTime) on an
\* instance holding secretKey; currentTime is a valid instant in ms
validateKeyAtTime(secretKey, licenseKey, currentTime) ==
  IF Falsy(licenseKey) \/ licenseKey.type # "string"
    THEN Throw("INVALID_FORMAT", "format", FALSE, 0)
  ELSE IF ~StartsWith(licenseKey.str, LICENSE_PREFIX)
    THEN Throw("INVALID_FORMAT", "format", FALSE, 0)
  ELSE
    LET encoded == SubSeq(licenseKey.str, Len(LICENSE_PREFIX) + 1, Len(licenseKey.str))
        decode  == fromBase64Url(encoded)
    IN IF decode.threw THEN Throw("BASE64_ERROR", "decode", TRUE, 0)
       ELSE SignatureGate(secretKey, decode.data, currentTime)

\* ----------------------------------------------------------- constructors
\* the constructor guard without the trim: only the empty string is refused
SecretRejectedNoTrim(secretKey) == secretKey = <<>>

\* generator.ts:27 and validator.ts:41, the constructor guard:
\* !secretKey || secretKey.trim().length === 0
SecretRejected(secretKey) == secretKey = <<>> \/ Len(Trim(secretKey)) = 0

\* an instance slot: no object yet, a constructor call that threw, or the
\* constructed object with its private secretKey field
NoInstance == [status |-> "none", arg |-> <<>>, secretKey |-> <<>>]

Construct(secretKey) ==
  IF SecretRejected(secretKey)
  THEN [status |-> "threw", arg |-> secretKey, secretKey |-> <<>>]
  ELSE [status |-> "ok", arg |-> secretKey, secretKey |-> secretKey]

\* ------------------------------------------------------------ input sets
\* secrets handed to the constructors: "", "   ", tab+newline (blank);
\* "k", "k" followed by a NUL, " q" (not blank)
SecretInputs == {<<>>, <<32, 32, 32>>, <<9, 10>>, <<107>>, <<107, 0>>, <<32, 113>>}

Date(ms) == [kind |-> "Date", time |-> Num(ms)]
InvalidDate == [kind |-> "Date", time |-> NaN]
Undefined == [kind |-> "undefined", time |-> NaN]

\* durations: 1 h, 0.5 h, 0.0001 h (360 ms), 999.5 ms, 0, -1 h, NaN
HoursInputs == {Num(HoursScale), Num(HoursScale \div 2), Num(720), Num(1999),
                Num(0), Num(-HoursScale), NaN}

\* issuance instants: 1 s, 10 s, 100.5 s, 0.5 s after the epoch, 1.5 s
\* before it, an Invalid Date, and a missing argument
IssuedAtInputs == {Date(1000), Date(10000), Date(100500), Date(500), Date(-1500),
                   InvalidDate, Undefined}

\* license keys presented without having been issued
RawInputs ==
  { Str(<<>>),
    Str(<<105, 110, 118, 97, 108, 105, 100, 45, 108, 105, 99, 101, 110, 115, 101>>),            \* "invalid-license"
    Str(<<110, 111, 116, 45, 97, 108, 118, 97, 110, 45, 112, 114, 101, 102, 105, 120, 101, 100>>),           \* "not-alvan-prefixed"
    Str(<<97, 108, 118, 97, 110, 45>>),             \* "alvan-"
    Str(<<97, 108, 118, 97, 110, 45, 33, 33, 33, 33>>),               \* "alvan-!!!!"
    Str(<<97, 108, 118, 97, 110, 45, 65>>),               \* "alvan-A"
    Str(<<97, 108, 118, 97, 110, 45, 89, 83, 53, 105>>),              \* "alvan-YS5i", base64url of "a.b"
    Str(<<97, 108, 118, 97, 110, 45, 90, 109, 70, 114, 90, 84, 112, 107, 89, 88, 82, 104, 79, 109, 104, 108, 99, 109, 85>>),               \* "alvan-" + base64url of "fake:data:here"
    [type |-> "undefined", str |-> <<>>, num |-> 0],
    [type |-> "null", str |-> <<>>, num |-> 0],
    [type |-> "number", str |-> <<>>, num |-> 0],
    [type |-> "number", str |-> <<>>, num |-> 123] }

\* ------------------------------------------------------------------ state
VARIABLES
  generator,    \* the LicenseGenerator instance slot
  validator,    \* the LicenseValidator instance slot
  licenseKey,   \* the value the caller holds as license key
  origin,       \* where licenseKey came from
  currentTime,  \* currentTime of the last validation call
  result,       \* outcome of the last validation call on licenseKey
  previous,     \* currentTime and outcome the caller kept from the validation before
  instances,    \* instances shared by calls in flight
  calls,        \* calls in flight: arguments, position, locals, outcome
  hmacObjs,     \* the Hmac objects created by calls in flight
  duration,     \* the argument handed to formatDuration
  formatted,    \* the string formatDuration returned
  detailed      \* arguments and outcome of the last validateLicenseWithDetails call

concVars == <<instances, calls, hmacObjs>>
fmtVars == <<duration, formatted, detailed>>
vars == <<generator, validator, licenseKey, origin, currentTime, result, previous,
          instances, calls, hmacObjs, duration, formatted, detailed>>

NoKey == [type |-> "undefined", str |-> <<>>, num |-> 0]
NoResult == Outcome("none", "", "", FALSE, 0)

Origin(how, secretKey, hours, issuedAt, base, tamper, pos) ==
  [how |-> how, secretKey |-> secretKey, hours |-> hours, issuedAt |-> issuedAt,
   base |-> base, tamper |-> tamper, pos |-> pos, hmacs |-> 0]
NoOrigin == Origin("none", <<>>, NaN, Undefined, <<>>, "", 0)
\* the details field of a ValidationResult that carries none (null)
NoDetails ==
  [remainingDays |-> 0, remainingHours |-> 0, remainingMinutes |-> 0,
   totalDuration |-> 0, percentageRemaining |-> 0]
\* validateLicenseWithDetails not called
NoDetailed ==
  [called |-> FALSE, licenseKey |-> NoKey, secretKey |-> <<>>, now |-> 0,
   threw |-> FALSE, valid |-> FALSE, info |-> NoResult, hasInfo |-> FALSE,
   error |-> NoResult, hasError |-> FALSE, details |-> NoDetails, hasDetails |-> FALSE]
NoPrevious == [currentTime |-> 0, result |-> NoResult]
\* no call in flight
NoCalls == instances = <<>> /\ calls = <<>> /\ hmacObjs = <<>>
\* formatDuration not called
NoFormat == duration = 0 /\ formatted = <<>> /\ detailed = NoDetailed

Init ==
  /\ generator = NoInstance
  /\ validator = NoInstance
  /\ licenseKey = NoKey
  /\ origin = NoOrigin
  /\ currentTime = 0
  /\ result = NoResult
  /\ previous = NoPrevious
  /\ NoCalls /\ NoFormat

\* new LicenseGenerator(secretKey)
NewGenerator(secretKey) ==
  /\ generator.status # "ok"
  /\ generator' = Construct(secretKey)
  /\ UNCHANGED <<validator, licenseKey, origin, currentTime, result, previous>>
  /\ UNCHANGED <<concVars, fmtVars>>

\* new LicenseValidator(secretKey)
NewValidator(secretKey) ==
  /\ validator.status # "ok"
  /\ validator' = Construct(secretKey)
  /\ UNCHANGED <<generator, licenseKey, origin, currentTime, result, previous>>
  /\ UNCHANGED <<concVars, fmtVars>>

\* generator.generateKeyWithTimestamp(hours, issuedAt); the caller keeps the
\* returned string as licenseKey, and holds no key when the call threw
GenerateKeyWithTimestamp(hours, issuedAt) ==
  /\ generator.status = "ok"
  /\ LET g == generateKeyWithTimestamp(generator.secretKey, hours, issuedAt)
     IN /\ licenseKey' = IF g.threw THEN NoKey ELSE Str(g.value)
        /\ origin' = [Origin(IF g.threw THEN "threw" ELSE "issued",
                             generator.secretKey, hours, issuedAt, g.value, "", 0)
                        EXCEPT !.hmacs = g.hmacs]
  /\ currentTime' = 0
  /\ result' = NoResult
  /\ previous' = NoPrevious
  /\ UNCHANGED <<generator, validator, concVars, fmtVars>>

\* the caller presents a key that no generator issued
Present(raw) ==
  /\ licenseKey' = raw
  /\ origin' = Origin("raw", <<>>, NaN, Undefined, <<>>, "", 0)
  /\ currentTime' = 0
  /\ result' = NoResult
  /\ previous' = NoPrevious
  /\ UNCHANGED <<generator, validator, concVars, fmtVars>>

\* instants at which the held key is validated: the epoch, a late instant,
\* and for an issued key the issuance instant, 3599 s and 3600 s after it,
\* and the last millisecond before and the first at expires_at
LateInstant == 2 * HOUR_MS
CurrentTimes ==
  {0, LateInstant} \cup
  ( IF origin.how \in {"issued", "tampered"}
    THEN LET g == generateKeyWithTimestamp(origin.secretKey, origin.hours, origin.issuedAt)
             t == origin.issuedAt.time.val
         IN {t, t + 3599000, t + 3600000} \cup
            ( IF g.expiresTimestamp.nan THEN {}
              ELSE {g.expiresTimestamp.val * 1000 - 1, g.expiresTimestamp.val * 1000} )
    ELSE {} )

\* validator.validateKeyAtTime(licenseKey, now); validateKey() is the same
\* call with now read from the clock
ValidateKeyAtTime(now) ==
  /\ validator.status = "ok"
  /\ origin.how \in {"issued", "raw", "tampered"}
  /\ currentTime' = now
  /\ result' = validateKeyAtTime(validator.secretKey, licenseKey, now)
  /\ UNCHANGED <<generator, validator, licenseKey, origin, previous>>
  /\ UNCHANGED <<concVars, fmtVars>>

Next ==
  \/ \E secretKey \in SecretInputs : NewGenerator(secretKey)
  \/ \E secretKey \in SecretInputs : NewValidator(secretKey)
  \/ \E hours \in HoursInputs, issuedAt \in IssuedAtInputs :
       GenerateKeyWithTimestamp(hours, issuedAt)
  \/ \E raw \in RawInputs : Present(raw)
  \/ \E now \in CurrentTimes : ValidateKeyAtTime(now)

Spec == Init /\ [][Next]_vars

\* -------------------------------------------------------------- tampering
\* Tampering with an issued key, as the tests' "Tampering Detection" does
\* (integration.test.ts:108-131), checked under SpecTamper: one generator
\* and one validator that share a secret, 1-hour keys whose encoded part is
\* 52, 54 and 55 characters long

\* characters written over a key: 'A' 'X' '0' '+' '/' '-' '_' '=' '!' '.'
TamperChars == {65, 88, 48, 43, 47, 45, 95, 61, 33, 46}

\* the URL-safe character whose 6-bit value differs from that of c in the
\* lowest bit
UrlChar(v) == IF v = 62 THEN 45 ELSE IF v = 63 THEN 95 ELSE Base64Char(v)
Neighbour(c) ==
  LET v == Unbase64(c) IN IF v = 64 THEN c ELSE UrlChar(IF v % 2 = 0 THEN v + 1 ELSE v - 1)

\* prefixes put in place of "alvan-": "hacked-", "Alvan-", "alvan_"
PrefixInputs == {<<104, 97, 99, 107, 101, 100, 45>>,
                 <<65, 108, 118, 97, 110, 45>>,
                 <<97, 108, 118, 97, 110, 95>>}

TamperSecret == <<107>>
TamperHours == {Num(HoursScale)}
TamperIssuedAt == {Date(1000), Date(10000), Date(100500)}

TamperInit ==
  /\ generator = Construct(TamperSecret)
  /\ validator = Construct(TamperSecret)
  /\ licenseKey = NoKey
  /\ origin = NoOrigin
  /\ currentTime = 0
  /\ result = NoResult
  /\ previous = NoPrevious
  /\ NoCalls /\ NoFormat

Tampered(str, tamper, pos) ==
  /\ origin.how = "issued"
  /\ str # licenseKey.str
  /\ licenseKey' = Str(str)
  /\ origin' = [origin EXCEPT !.how = "tampered", !.tamper = tamper, !.pos = pos]
  /\ currentTime' = 0
  /\ result' = NoResult
  /\ previous' = NoPrevious
  /\ UNCHANGED <<generator, validator, concVars, fmtVars>>

\* the character at position pos is replaced by c
ReplaceChar(pos, c) ==
  /\ licenseKey.type = "string" /\ pos \in 1..Len(licenseKey.str)
  /\ Tampered([licenseKey.str EXCEPT ![pos] = c], "replace", pos)

\* validLicense.slice(0, -n) + c.repeat(n)
ReplaceTrailing(n, c) ==
  /\ licenseKey.type = "string" /\ n <= Len(licenseKey.str)
  /\ Tampered(SubSeq(licenseKey.str, 1, Len(licenseKey.str) - n) \o Repeat(c, n),
              "trailing", Len(licenseKey.str) - n + 1)

\* validLicense.replace('alvan-', prefix)
ChangePrefix(prefix) ==
  /\ licenseKey.type = "string" /\ StartsWith(licenseKey.str, LICENSE_PREFIX)
  /\ Tampered(prefix \o SubSeq(licenseKey.str, Len(LICENSE_PREFIX) + 1, Len(licenseKey.str)),
              "prefix", 1)

\* validLicense.slice(0, -1)
TruncateLast ==
  /\ licenseKey.type = "string" /\ licenseKey.str # <<>>
  /\ Tampered(SubSeq(licenseKey.str, 1, Len(licenseKey.str) - 1), "truncate",
              Len(licenseKey.str))

\* validLicense + c
AppendChar(c) ==
  /\ licenseKey.type = "string"
  /\ Tampered(licenseKey.str \o <<c>>, "append", Len(licenseKey.str) + 1)

\* a tampered key is validated at the issuance instant and at a late one
TamperTimes == {origin.issuedAt.time.val, LateInstant}

\* the longest key of the model: prefix, then 41 bytes in base64
MaxKeyLen == Len(LICENSE_PREFIX) + 55

TamperNext ==
  \/ \E hours \in TamperHours, issuedAt \in TamperIssuedAt :
       GenerateKeyWithTimestamp(hours, issuedAt)
  \/ \E pos \in 1..MaxKeyLen :
       \E c \in TamperChars \cup (IF licenseKey.type = "string" /\ pos <= Len(licenseKey.str)
                                  THEN {Neighbour(licenseKey.str[pos])} ELSE {}) :
         ReplaceChar(pos, c)
  \/ \E n \in 2..MaxTrailing, c \in TamperChars : ReplaceTrailing(n, c)
  \/ \E prefix \in PrefixInputs : ChangePrefix(prefix)
  \/ TruncateLast
  \/ \E c \in TamperChars : AppendChar(c)
  \/ \E now \in TamperTimes : ValidateKeyAtTime(now)

SpecTamper == TamperInit /\ [][TamperNext]_vars

\* ----------------------------------------------------- remaining time
\* a second specification for the time a key has left: one generator and one
\* validator that share a secret, keys for 1 hour, 24 hours, half an hour,
\* 999.5 ms and NaN hours, and a caller who validates the key again and again and
\* keeps the outcome of the validation before

RemainingSecret == <<107>>
RemainingHours == {Num(HoursScale), Num(24 * HoursScale), Num(HoursScale \div 2), Num(1999), NaN}
RemainingIssuedAt == {Date(1000), Date(100500), Date(500), Date(-1500)}

RemainingInit ==
  /\ generator = Construct(RemainingSecret)
  /\ validator = Construct(RemainingSecret)
  /\ licenseKey = NoKey
  /\ origin = NoOrigin
  /\ currentTime = 0
  /\ result = NoResult
  /\ previous = NoPrevious
  /\ NoCalls /\ NoFormat

\* instants at which an issued key is validated: the epoch, the issuance instant, one
\* millisecond, half an hour and six hours later, and the last millisecond
\* before and the first at expires_at
RemainingTimes ==
  IF origin.how # "issued" THEN {}
  ELSE LET g == generateKeyWithTimestamp(origin.secretKey, origin.hours, origin.issuedAt)
           t == origin.issuedAt.time.val
       IN {0, t, t + 1, t + HOUR_MS \div 2, t + 6 * HOUR_MS,
           g.expiresTimestamp.val * 1000 - 1, g.expiresTimestamp.val * 1000}

\* validator.validateKeyAtTime(licenseKey, now) by a caller who keeps the
\* outcome of the validation before
ValidateAgain(now) ==
  /\ validator.status = "ok"
  /\ origin.how \in {"issued", "forged"}
  /\ previous' = [currentTime |-> currentTime, result |-> result]
  /\ currentTime' = now
  /\ result' = validateKeyAtTime(validator.secretKey, licenseKey, now)
  /\ UNCHANGED <<generator, validator, licenseKey, origin, concVars, fmtVars>>

RemainingNext ==
  \/ \E hours \in RemainingHours, issuedAt \in RemainingIssuedAt :
       GenerateKeyWithTimestamp(hours, issuedAt)
  \/ \E now \in RemainingTimes : ValidateAgain(now)

SpecRemaining == RemainingInit /\ [][RemainingNext]_vars

\* -------------------------------------------------------- signed payloads
\* a further specification for the gates behind the decoding: a validator, and
\* a caller who knows its secret, signs a payload of their choosing, keeps
\* or spoils the signature, and validates the key again and again

ForgeSecret == <<107>>

\* payloads: a well-formed one (issued_at 5, expires_at 9) and malformed ones
ForgePayloads ==
  {
    <<53, 58, 57>>,   \* "5:9"
    <<57, 58, 53>>,   \* "9:5"
    <<53, 58, 53>>,   \* "5:5"
    <<48, 58, 57>>,   \* "0:9"
    <<45, 49, 58, 57>>,   \* "-1:9"
    <<53, 58, 48>>,   \* "5:0"
    <<53>>,   \* "5"
    <<53, 58, 57, 58, 49>>,   \* "5:9:1"
    <<>>,   \* ""
    <<58, 57>>,   \* ":9"
    <<53, 58>>,   \* "5:"
    <<97, 58, 57>>,   \* "a:9"
    <<53, 58, 98>>,   \* "5:b"
    <<53, 58, 57, 120>>,   \* "5:9x"
    <<53, 120, 58, 57>>,   \* "5x:9"
    <<32, 53, 58, 57>>,   \* " 5:9"
    <<53, 58, 49, 101, 51>>    \* "5:1e3"
  }

\* what is put behind the '.': the HMAC of the payload, the HMAC with its
\* first byte changed, without its last byte, with one more byte, or nothing;
\* "bare" leaves out the '.' as well
ForgeSignatures == {"signed", "flipped", "short", "long", "empty", "bare"}

ForgedSignature(secretKey, payload, how) ==
  LET signature == Hmac(secretKey, payload)
  IN CASE how = "signed"  -> signature
       [] how = "flipped" -> [signature EXCEPT ![1] = (@ + 1) % 256]
       [] how = "short"   -> SubSeq(signature, 1, Len(signature) - 1)
       [] how = "long"    -> signature \o <<0>>
       [] how = "empty"   -> <<>>
       [] how = "bare"    -> <<>>

\* Buffer.concat([payload, '.', signature]) of generator.ts:80-82
ForgedData(secretKey, payload, how) ==
  IF how = "bare" THEN payload
  ELSE payload \o <<46>> \o ForgedSignature(secretKey, payload, how)

ForgeInit ==
  /\ generator = NoInstance
  /\ validator = Construct(ForgeSecret)
  /\ licenseKey = NoKey
  /\ origin = NoOrigin
  /\ currentTime = 0
  /\ result = NoResult
  /\ previous = NoPrevious
  /\ NoCalls /\ NoFormat

\* the caller builds the key "alvan-" + base64url(payload . signature) as
\* generator.ts:75-88 does, for a payload of their own; origin.base keeps the
\* payload and origin.tamper what was done to the signature
Forge(payload, how) ==
  /\ validator.status = "ok"
  /\ origin.how = "none"
  /\ licenseKey' = Str(LICENSE_PREFIX \o
                         toBase64Url(ForgedData(validator.secretKey, payload, how)))
  /\ origin' = Origin("forged", validator.secretKey, NaN, Undefined, payload, how, 0)
  /\ currentTime' = 0
  /\ result' = NoResult
  /\ previous' = NoPrevious
  /\ UNCHANGED <<generator, validator, concVars, fmtVars>>

\* instants around issued_at = 5 s and expires_at = 9 s
ForgeTimes == {1000, 6000, 8999, 9000, 20000}

ForgeNext ==
  \/ \E payload \in ForgePayloads, how \in ForgeSignatures : Forge(payload, how)
  \/ \E now \in ForgeTimes : ValidateAgain(now)

SpecForge == ForgeInit /\ [][ForgeNext]_vars

\* ------------------------------------------------------ calls in flight
\* a further specification: two generators and a validator built with one
\* secret, and calls on them that advance in steps and interleave freely.
\* A call runs its guards when it starts, then creates its Hmac object
\* (generator.ts:75, validator.ts:110), feeds it the payload (generator.ts:76,
\* validator.ts:111) and takes the digest and finishes (generator.ts:77-88,
\* validator.ts:112-180).

MaxCalls == 3

ConcSecret == <<107>>
Instance(class, secretKey) == [class |-> class, secretKey |-> Construct(secretKey).secretKey]
ConcInstances == << Instance("LicenseGenerator", ConcSecret),
                    Instance("LicenseGenerator", ConcSecret),
                    Instance("LicenseValidator", ConcSecret) >>

\* arguments of the generator calls: 1 hour at 1 s and at 100.5 s, and 0
\* hours, which throws
ConcIssued == {<<Num(HoursScale), Date(1000)>>, <<Num(HoursScale), Date(100500)>>,
               <<Num(0), Date(1000)>>}
\* the 1-hour key issued at 1 s, and "x"
ConcKeys == {Str(generateKeyWithTimestamp(ConcSecret, Num(HoursScale), Date(1000)).value),
             Str(<<120>>)}
ConcTimes == {1000}

IdleCall ==
  [op |-> "none", self |-> 0, hours |-> NaN, issuedAt |-> Undefined,
   licenseKey |-> NoKey, currentTime |-> 0, pc |-> "idle",
   payload |-> <<>>, providedSignature |-> <<>>,
   threw |-> FALSE, value |-> <<>>, result |-> NoResult]

\* an Hmac object: the key it was created with and the bytes fed to it
NoHmac == [key |-> <<>>, msg |-> <<>>]
\* holders of an Hmac object: the calls (1..MaxCalls), the module (0), the
\* instances (MaxCalls + self)
HmacOwners == 0..(MaxCalls + Len(ConcInstances))

\* HmacOwner with one Hmac object kept at module level
HmacOwnerModule(i) == 0

\* HmacOwner with the Hmac object kept in a field of the instance
HmacOwnerInstance(i) == MaxCalls + calls[i].self

\* `const hmac` (generator.ts:75, validator.ts:110): the object belongs to
\* the call
HmacOwner(i) == i

ConcInit ==
  /\ generator = NoInstance
  /\ validator = NoInstance
  /\ licenseKey = NoKey
  /\ origin = NoOrigin
  /\ currentTime = 0
  /\ result = NoResult
  /\ previous = NoPrevious
  /\ instances = ConcInstances
  /\ calls = [i \in 1..MaxCalls |-> IdleCall]
  /\ hmacObjs = [o \in HmacOwners |-> NoHmac]
  /\ NoFormat

keyVars == <<generator, validator, licenseKey, origin, currentTime, result, previous>>

\* calls are numbered in the order they start
NextToStart(i) == calls[i].pc = "idle" /\ \A j \in 1..(i - 1) : calls[j].pc # "idle"

\* instances[self].generateKeyWithTimestamp(hours, issuedAt) starts:
\* generator.ts:58-72, the guards and the payload
CallGenerate(i, self, hours, issuedAt) ==
  /\ NextToStart(i)
  /\ instances[self].class = "LicenseGenerator"
  /\ LET g == generateKeyWithTimestamp(instances[self].secretKey, hours, issuedAt)
     IN calls' = [calls EXCEPT ![i] =
                    [@ EXCEPT !.op = "generate", !.self = self, !.hours = hours,
                              !.issuedAt = issuedAt, !.threw = g.threw,
                              !.payload = g.payload,
                              !.pc = IF g.threw THEN "done" ELSE "createHmac"]]
  /\ UNCHANGED <<keyVars, instances, hmacObjs, fmtVars>>

\* instances[self].validateKeyAtTime(licenseKey, now) starts:
\* validator.ts:80-107, the format, decode and structure gates and the split
CallValidate(i, self, key, now) ==
  /\ NextToStart(i)
  /\ instances[self].class = "LicenseValidator"
  /\ LET r    == validateKeyAtTime(instances[self].secretKey, key, now)
         data == fromBase64Url(SubSeq(key.str, Len(LICENSE_PREFIX) + 1, Len(key.str))).data
         separatorIndex == IndexOf(data, 46)
     IN calls' = [calls EXCEPT ![i] =
                    IF r.hmacs = 0
                    THEN [@ EXCEPT !.op = "validate", !.self = self, !.licenseKey = key,
                                   !.currentTime = now, !.result = r, !.pc = "done"]
                    ELSE [@ EXCEPT !.op = "validate", !.self = self, !.licenseKey = key,
                                   !.currentTime = now,
                                   !.payload = SubSeq(data, 1, separatorIndex - 1),
                                   !.providedSignature =
                                      SubSeq(data, separatorIndex + 1, Len(data)),
                                   !.pc = "createHmac"]]
  /\ UNCHANGED <<keyVars, instances, hmacObjs, fmtVars>>

\* const hmac = createHmac('sha256', this.secretKey)
CreateHmac(i) ==
  /\ calls[i].pc = "createHmac"
  /\ hmacObjs' = [hmacObjs EXCEPT ![HmacOwner(i)] =
                    [key |-> instances[calls[i].self].secretKey, msg |-> <<>>]]
  /\ calls' = [calls EXCEPT ![i].pc = "update"]
  /\ UNCHANGED <<keyVars, instances, fmtVars>>

\* hmac.update(payload)
UpdateHmac(i) ==
  /\ calls[i].pc = "update"
  /\ hmacObjs' = [hmacObjs EXCEPT ![HmacOwner(i)].msg = @ \o calls[i].payload]
  /\ calls' = [calls EXCEPT ![i].pc = "digest"]
  /\ UNCHANGED <<keyVars, instances, fmtVars>>

\* hmac.digest() and the rest of the call: the generator encodes and
\* returns, the validator compares, parses and checks the expiry
DigestHmac(i) ==
  /\ calls[i].pc = "digest"
  /\ LET hmac      == hmacObjs[HmacOwner(i)]
         signature == Hmac(hmac.key, hmac.msg)
         call      == calls[i]
     IN calls' = [calls EXCEPT ![i] =
                    IF call.op = "generate"
                    THEN [call EXCEPT !.value = LICENSE_PREFIX \o
                                         toBase64Url(call.payload \o <<46>> \o signature),
                                      !.pc = "done"]
                    ELSE [call EXCEPT !.result = CompareGate(call.providedSignature,
                                                    signature, call.payload,
                                                    call.currentTime),
                                      !.pc = "done"]]
  /\ UNCHANGED <<keyVars, instances, hmacObjs, fmtVars>>

ConcNext ==
  \/ \E i \in 1..MaxCalls, self \in 1..Len(ConcInstances), args \in ConcIssued :
       CallGenerate(i, self, args[1], args[2])
  \/ \E i \in 1..MaxCalls, self \in 1..Len(ConcInstances),
         key \in ConcKeys, now \in ConcTimes :
       CallValidate(i, self, key, now)
  \/ \E i \in 1..MaxCalls : CreateHmac(i)
  \/ \E i \in 1..MaxCalls : UpdateHmac(i)
  \/ \E i \in 1..MaxCalls : DigestHmac(i)

SpecConc == ConcInit /\ [][ConcNext]_vars

\* ------------------------------------------------------- formatDuration
\* a further specification for the utility formatDuration(hours).  The
\* argument is counted in half hours.

MaxHalfHours == 400

\* half hours in one hour
HalfHours == 2

\* Math.round(num / den) for den > 0: the nearest integer, halves go up
Round(num, den) == (2 * num + den) \div (2 * den)

\* `${n} ${unit}${n !== 1 ? 's' : ''}`
Plural(n, unit) ==
  NumberToString(Num(n)) \o <<32>> \o unit \o (IF n # 1 THEN <<115>> ELSE <<>>)

\* formatDuration(hours) (error.ts:265-292), hours = h2 / 2
formatDuration(h2) ==
  IF h2 < 1 * HalfHours
    THEN Plural(Round(h2 * 60, HalfHours), <<109, 105, 110, 117, 116, 101>>)
  ELSE IF h2 < 24 * HalfHours
    THEN Plural(Round(h2, HalfHours), <<104, 111, 117, 114>>)
  ELSE IF h2 < 168 * HalfHours
    THEN Plural(Round(h2, 24 * HalfHours), <<100, 97, 121>>)
  ELSE IF h2 < 720 * HalfHours
    THEN Plural(Round(h2, 168 * HalfHours), <<119, 101, 101, 107>>)
  ELSE IF h2 < 8760 * HalfHours
    THEN Plural(Round(h2, 720 * HalfHours), <<109, 111, 110, 116, 104>>)
  ELSE Plural(Round(h2, 8760 * HalfHours), <<121, 101, 97, 114>>)

\* arguments: every half hour up to MaxHalfHours, and 720, 1000, 8760 and
\* 10000 hours
DurationInputs ==
  (0..MaxHalfHours) \cup {720 * HalfHours, 1000 * HalfHours, 8760 * HalfHours,
                          10000 * HalfHours}

FormatInit ==
  /\ generator = NoInstance
  /\ validator = NoInstance
  /\ licenseKey = NoKey
  /\ origin = NoOrigin
  /\ currentTime = 0
  /\ result = NoResult
  /\ previous = NoPrevious
  /\ NoCalls /\ NoFormat

\* formatDuration(hours) is called and its string kept
FormatDuration(h2) ==
  /\ duration' = h2
  /\ formatted' = formatDuration(h2)
  /\ UNCHANGED <<keyVars, concVars, detailed>>

FormatNext == \E h2 \in DurationInputs : FormatDuration(h2)

SpecFormat == FormatInit /\ [][FormatNext]_vars

\* ------------------------------------------------ hasValidLicenseFormat
\* /^[A-Za-z0-9_-]+$/.test(encoded)
base64urlPattern(encoded) ==
  /\ encoded # <<>>
  /\ \A i \in 1..Len(encoded) :
       encoded[i] \in (65..90) \cup (97..122) \cup (48..57) \cup {95, 45}

\* hasValidLicenseFormat(licenseKey) (error.ts:228-245), key its licenseKey
hasValidLicenseFormat(key) ==
  IF Falsy(key) \/ key.type # "string" THEN FALSE
  ELSE IF ~StartsWith(key.str, LICENSE_PREFIX) THEN FALSE
  ELSE LET encoded == SubSeq(key.str, 7, Len(key.str))
       IN IF Len(encoded) < 10 THEN FALSE
          ELSE base64urlPattern(encoded)

\* ------------------------------------------- validateLicenseWithDetails
\* the details object of a successful validation (error.ts:204-213);
\* info.hoursRemaining is held in ms, so hours = hoursRemaining / HOUR_MS
Details(info) ==
  LET totalMs == info.expiresAt - info.issuedAt
  IN [remainingDays       |-> info.hoursRemaining \div (24 * HOUR_MS),
      remainingHours      |-> (info.hoursRemaining \div HOUR_MS) % 24,
      remainingMinutes    |-> ((info.hoursRemaining % HOUR_MS) * 60) \div HOUR_MS,
      totalDuration       |-> totalMs \div HOUR_MS,
      percentageRemaining |-> Round(100 * info.hoursRemaining, totalMs)]

\* validateLicenseWithDetails(licenseKey, secretKey) (error.ts:195-220) with
\* the clock reading now: the validator is constructed before the try; the
\* catch takes whatever validateKey throws
validateLicenseWithDetails(key, secretKey, now) ==
  LET call == [NoDetailed EXCEPT !.called = TRUE, !.licenseKey = key,
                                 !.secretKey = secretKey, !.now = now]
  IN IF Construct(secretKey).status = "threw"
     THEN [call EXCEPT !.threw = TRUE]
     ELSE LET r == validateKeyAtTime(Construct(secretKey).secretKey, key, now)
          IN IF r.kind = "LicenseInfo"
             THEN [call EXCEPT !.valid = TRUE, !.info = r, !.hasInfo = TRUE,
                               !.details = Details(r), !.hasDetails = TRUE]
             ELSE [call EXCEPT !.error = r, !.hasError = TRUE]

\* keys handed to validateLicenseWithDetails: the raw strings, a key issued
\* under "k" for one hour at 1 s, the same with a 31-byte signature, and a
\* signed payload "5:9"
DetailKeys ==
  RawInputs \cup
  { Str(generateKeyWithTimestamp(ForgeSecret, Num(HoursScale), Date(1000)).value),
    Str(LICENSE_PREFIX \o toBase64Url(ForgedData(ForgeSecret, <<49, 58, 51, 54, 48, 49>>, "short"))),
    Str(LICENSE_PREFIX \o toBase64Url(ForgedData(ForgeSecret, <<53, 58, 57>>, "signed"))) }
\* clock readings (ms): inside and after the keys' lifetimes
DetailTimes == {6000, 1801000, LateInstant + 2000}

DetailInit == Init

ValidateLicenseWithDetails(key, secretKey, now) ==
  /\ detailed' = validateLicenseWithDetails(key, secretKey, now)
  /\ UNCHANGED <<keyVars, concVars, duration, formatted>>

DetailNext ==
  \E key \in DetailKeys, secretKey \in SecretInputs, now \in DetailTimes :
    ValidateLicenseWithDetails(key, secretKey, now)
SpecDetail == DetailInit /\ [][DetailNext]_vars

\* ================================================================= claims
Validated == result.kind # "none"
Issued == origin.how = "issued"
\* the held key was issued for a duration hours > 0
IssuedPositive == Issued /\ ~origin.hours.nan /\ origin.hours.val > 0
OwnSecret == validator.status = "ok" /\ validator.secretKey = origin.secretKey

\* what the generator encoded into the held key
IssuedKey == generateKeyWithTimestamp(origin.secretKey, origin.hours, origin.issuedAt)

\* the issued payload is a pair of positive integers with expires > issued
WellFormed ==
  /\ ~IssuedKey.issuedTimestamp.nan /\ ~IssuedKey.expiresTimestamp.nan
  /\ IssuedKey.issuedTimestamp.val > 0
  /\ IssuedKey.expiresTimestamp.val > IssuedKey.issuedTimestamp.val

IsError(type) == result.kind = "LicenseError" /\ result.type = type

\* the key the tampering started from validates at currentTime
BaseValid ==
  validateKeyAtTime(origin.secretKey, Str(origin.base), currentTime).kind = "LicenseInfo"

\* C1: round trip -- a key issued for hours > 0 at a valid instant and
\* validated at that instant under the same secret yields a LicenseInfo
\* with isValid = true
C1_RoundTrip ==
  (IssuedPositive /\ Validated /\ OwnSecret /\ currentTime = origin.issuedAt.time.val)
    => (result.kind = "LicenseInfo" /\ result.isValid)

\* C2: tamper sensitivity -- a valid key with one character replaced by a
\* different one fails with INVALID_FORMAT, BASE64_ERROR or INVALID_SIGNATURE
C2_TamperSensitivity ==
  (origin.how = "tampered" /\ origin.tamper = "replace" /\ Validated /\ BaseValid)
    => (result.kind = "LicenseError"
        /\ result.type \in {"INVALID_FORMAT", "BASE64_ERROR", "INVALID_SIGNATURE"})

\* C3: a valid key whose trailing characters are replaced, whose prefix is
\* changed, whose last character is cut or that got one more character is
\* rejected with a LicenseError
C3_TamperedRejected ==
  (origin.how = "tampered" /\ Validated /\ BaseValid
     /\ origin.tamper \in {"trailing", "prefix", "truncate", "append"})
    => result.kind = "LicenseError"

\* C4: key sensitivity -- a key issued under secret A fails with
\* INVALID_SIGNATURE under every validator secret B # A at any current time,
\* and validates under A (at its issuance instant)
C4_KeySensitivity ==
  (IssuedPositive /\ Validated)
    => /\ validator.secretKey # origin.secretKey => IsError("INVALID_SIGNATURE")
       /\ (validator.secretKey = origin.secretKey
             /\ currentTime = origin.issuedAt.time.val) => result.kind = "LicenseInfo"

SixKinds == {"INVALID_FORMAT", "INVALID_SIGNATURE", "EXPIRED", "INVALID_DATA",
             "BASE64_ERROR", "TIME_ERROR"}

\* C7: typed failures -- every validation call returns a LicenseInfo or
\* throws a LicenseError of one of the six kinds
C7_TypedFailures ==
  Validated => \/ result.kind = "LicenseInfo"
               \/ result.kind = "LicenseError" /\ result.type \in SixKinds

HasAlvanPrefix(x) ==
  x.type = "string" /\ Len(x.str) >= 6 /\ SubSeq(x.str, 1, 6) = <<97, 108, 118, 97, 110, 45>>

\* C8: format gate -- an empty key, a key that is not a string or a key
\* without the prefix "alvan-" fails with INVALID_FORMAT before any decoding
\* and before any HMAC computation
C8_FormatGate ==
  (Validated /\ ~HasAlvanPrefix(licenseKey))
    => (IsError("INVALID_FORMAT") /\ ~result.decoded /\ result.hmacs = 0)

\* "not-alvan-prefixed" was validated and refused at the format gate
C8_Witness ==
  /\ Validated /\ ~HasAlvanPrefix(licenseKey)
  /\ licenseKey.type = "string" /\ Len(licenseKey.str) = 18
  /\ IsError("INVALID_FORMAT") /\ result.gate = "format"

IsBase64UrlChar(c) == c \in (65..90) \cup (97..122) \cup (48..57) \cup {45, 95}

\* the part after the prefix is not base64url text: a character outside
\* [A-Za-z0-9_-], or a length that no unpadded encoding has
NotBase64Url(x) ==
  LET rest == SubSeq(x.str, 7, Len(x.str))
  IN \/ \E i \in 1..Len(rest) : ~IsBase64UrlChar(rest[i])
     \/ Len(rest) % 4 = 1

\* C9: decode gate -- a prefixed key whose remainder is not valid base64url
\* fails with BASE64_ERROR
C9_DecodeGate ==
  (Validated /\ HasAlvanPrefix(licenseKey) /\ NotBase64Url(licenseKey))
    => IsError("BASE64_ERROR")

IsBlank(s) == \A i \in 1..Len(s) : IsWhiteSpace(s[i])

\* C10: secret guard -- a constructor call throws exactly for an empty or
\* whitespace-only secret; a constructed instance holds the non-blank secret
\* it was given, and no later step changes the instance
C10_SecretGuard ==
  /\ [](\A inst \in {generator, validator} :
          /\ inst.status = "threw" => IsBlank(inst.arg)
          /\ inst.status = "ok" => (~IsBlank(inst.arg) /\ inst.secretKey = inst.arg
                                     /\ ~IsBlank(inst.secretKey)))
  /\ [][/\ generator.status = "ok" => generator' = generator
        /\ validator.status = "ok" => validator' = validator]_vars

\* a generator call with "   " threw while the validator, built with a
\* non-blank secret, went on to validate a key
C10_Witness ==
  /\ generator.status = "threw" /\ generator.arg = <<32, 32, 32>>
  /\ validator.status = "ok" /\ Validated

\* a generator call was made: it threw or it returned a key
Called == origin.how \in {"threw", "issued"}
\* hours is a number greater than 0 and issuedAt is a valid Date
GoodDuration == ~origin.hours.nan /\ origin.hours.val > 0
GoodInstant == origin.issuedAt.kind = "Date" /\ ~origin.issuedAt.time.nan

\* C11: issuance guards -- generateKeyWithTimestamp throws, computing no
\* HMAC and returning no key, whenever hours is not greater than 0 (zero,
\* negative or not a number) or issuedAt is missing or invalid; it returns a
\* key only when hours > 0 and issuedAt is a valid instant
C11_IssuanceGuards ==
  Called => /\ ~(GoodDuration /\ GoodInstant)
                 => (origin.how = "threw" /\ origin.hmacs = 0 /\ licenseKey = NoKey)
            /\ origin.how = "issued" => (GoodDuration /\ GoodInstant)

\* a decimal integer: an optional minus sign and then digits only
IsDecimal(s) ==
  LET body == IF s # <<>> /\ Head(s) = 45 THEN Tail(s) ELSE s
  IN body # <<>> /\ \A i \in 1..Len(body) : body[i] \in 48..57

\* the held key read back from its characters: prefix, unpadded base64url
\* text, and in the decoded bytes a payload, one 0x2E and 32 signature bytes
WireFormat ==
  LET key     == licenseKey.str
      encoded == SubSeq(key, 7, Len(key))
      data    == fromBase64Url(encoded).data
      n       == Len(data)
      payload == SubSeq(data, 1, n - DIGEST_SIZE - 1)
      parts   == Split(payload, 58)
  IN /\ licenseKey.type = "string"
     /\ Len(key) > 6 /\ SubSeq(key, 1, 6) = <<97, 108, 118, 97, 110, 45>>
     /\ \A i \in 1..Len(encoded) : IsBase64UrlChar(encoded[i])
     /\ Len(encoded) = (4 * n + 2) \div 3
     /\ n > DIGEST_SIZE + 1
     /\ data[n - DIGEST_SIZE] = 46
     /\ Len(parts) = 2 /\ IsDecimal(parts[1]) /\ IsDecimal(parts[2])
     /\ SubSeq(data, n - DIGEST_SIZE + 1, n) = Hmac(origin.secretKey, payload)
     /\ Len(Hmac(origin.secretKey, payload)) = 32

\* C12: wire format -- every key the generator returns is "alvan-" followed
\* by the unpadded URL-safe base64 text (no '+', '/' or '=') of payload,
\* 0x2E and signature, where payload is "<issued_at>:<expires_at>" in decimal
\* and signature is the 32-byte HMAC of payload under the secret
C12_WireFormat == Issued => WireFormat

\* the two parts of the payload read back from the characters of the held key
EncodedParts ==
  LET key  == licenseKey.str
      data == fromBase64Url(SubSeq(key, 7, Len(key))).data
  IN Split(SubSeq(data, 1, Len(data) - DIGEST_SIZE - 1), 58)

\* C13: payload invariant -- every key returned for hours > 0 and a valid
\* issuedAt encodes issued_at and expires_at as strictly positive integers
\* with expires_at > issued_at
C13_PayloadInvariant ==
  IssuedPositive
    => /\ Len(EncodedParts) = 2
       /\ IsDecimal(EncodedParts[1]) /\ IsDecimal(EncodedParts[2])
       /\ parseInt(EncodedParts[1]).val > 0
       /\ parseInt(EncodedParts[2]).val > parseInt(EncodedParts[1]).val

\* expires_at as written in the held key, in milliseconds
EncodedExpiry == parseInt(EncodedParts[2]).val * 1000

\* C14: on success hoursRemaining is (expires_at - currentTime) / 3600 s
\* exactly, to the millisecond and unrounded; a 24-hour key issued on a whole
\* second and validated six hours later reports 18 hours
C14_HoursRemaining ==
  (Issued /\ result.kind = "LicenseInfo")
    => /\ result.hoursRemaining = EncodedExpiry - currentTime
       /\ ( /\ origin.hours = Num(24 * HoursScale)
            /\ origin.issuedAt.time.val % 1000 = 0
            /\ currentTime = origin.issuedAt.time.val + 6 * HOUR_MS )
            => result.hoursRemaining = 18 * HOUR_MS

\* the 24-hour key issued at 1 s was validated six hours later: 18 hours
C14_Witness ==
  /\ Issued /\ result.kind = "LicenseInfo"
  /\ origin.hours = Num(24 * HoursScale) /\ origin.issuedAt = Date(1000)
  /\ currentTime = 1000 + 6 * HOUR_MS
  /\ result.hoursRemaining = 18 * HOUR_MS

\* C15: monotonicity -- when two validations of the same key succeed at
\* current times c1 < c2, hoursRemaining at c1 is strictly greater than at c2
C15_Monotonic ==
  (previous.result.kind = "LicenseInfo" /\ result.kind = "LicenseInfo")
    => /\ previous.currentTime < currentTime
            => previous.result.hoursRemaining > result.hoursRemaining
       /\ previous.currentTime > currentTime
            => previous.result.hoursRemaining < result.hoursRemaining

\* a key was validated with success at its issuance instant and again one
\* millisecond later
C15_Witness ==
  /\ Issued
  /\ previous.result.kind = "LicenseInfo" /\ result.kind = "LicenseInfo"
  /\ previous.currentTime = origin.issuedAt.time.val
  /\ currentTime = previous.currentTime + 1
  /\ result.hoursRemaining = previous.result.hoursRemaining - 1

EncodedIssued == parseInt(EncodedParts[1]).val
EncodedExpires == parseInt(EncodedParts[2]).val

Done(i) == calls[i].pc = "done"
SecretOf(i) == ConcInstances[calls[i].self].secretKey

\* C18: issuer determinism -- two generateKeyWithTimestamp calls with the
\* same secret, hours and issuedAt return the same string (or both throw),
\* whatever ran in between and whichever instance each call was made on
C18_Deterministic ==
  \A i, j \in 1..MaxCalls :
    ( /\ Done(i) /\ Done(j)
      /\ calls[i].op = "generate" /\ calls[j].op = "generate"
      /\ SecretOf(i) = SecretOf(j)
      /\ calls[i].hours = calls[j].hours /\ calls[i].issuedAt = calls[j].issuedAt )
      => (calls[i].threw = calls[j].threw /\ calls[i].value = calls[j].value)

\* the first and the third call asked two different generators for the same
\* key and got it, with a call for another key started and finished in between
C18_Witness ==
  /\ Done(1) /\ Done(2) /\ Done(3)
  /\ calls[1].op = "generate" /\ calls[3].op = "generate" /\ calls[2].op = "generate"
  /\ calls[1].self # calls[3].self
  /\ calls[1].hours = calls[3].hours /\ calls[1].issuedAt = calls[3].issuedAt
  /\ calls[2].issuedAt # calls[1].issuedAt
  /\ ~calls[1].threw /\ calls[1].value # <<>> /\ calls[1].value = calls[3].value
  /\ calls[2].value # calls[1].value

\* what call i returns when it runs alone on its instance as constructed
RunsAsAlone(i) ==
  IF calls[i].op = "generate"
  THEN LET g == generateKeyWithTimestamp(SecretOf(i), calls[i].hours, calls[i].issuedAt)
       IN calls[i].threw = g.threw /\ calls[i].value = g.value
  ELSE calls[i].result =
         validateKeyAtTime(SecretOf(i), calls[i].licenseKey, calls[i].currentTime)

\* C19: statelessness -- in every interleaving of the steps of generator and
\* validator calls on shared instances each finished call has the outcome it
\* has when run alone, and the instances keep the secret they were built with
C19_Stateless ==
  /\ instances = ConcInstances
  /\ \A i \in 1..MaxCalls : Done(i) => RunsAsAlone(i)

\* a later call on the same generator overtook an earlier one: call 2 has
\* returned its key while call 1 has created its Hmac object and not yet fed it
C19_Witness ==
  /\ calls[1].op = "generate" /\ calls[1].pc = "update"
  /\ calls[2].op = "generate" /\ Done(2) /\ ~calls[2].threw
  /\ calls[1].self = calls[2].self
  /\ calls[1].issuedAt # calls[2].issuedAt
  /\ calls[3].op = "validate" /\ calls[3].pc = "digest"

\* C20: formatDuration renders as the README shows: formatDuration(1.5) is
\* "1 hour", formatDuration(25) is "1 day", formatDuration(168) is "1 week"
C20_ReadmeExamples ==
  formatted # <<>>
    => \* 1.5 hours are 3 half hours
       /\ duration = 3 => formatted = <<49, 32, 104, 111, 117, 114>>
       /\ duration = 25 * HalfHours => formatted = <<49, 32, 100, 97, 121>>
       /\ duration = 168 * HalfHours => formatted = <<49, 32, 119, 101, 101, 107>>

\* the decoded bytes of the held key, and what lies before and after their
\* first 0x2E
KeyData == fromBase64Url(SubSeq(licenseKey.str, 7, Len(licenseKey.str))).data
HasSeparator == \E i \in 1..Len(KeyData) : KeyData[i] = 46
FirstSeparator ==
  CHOOSE i \in 1..Len(KeyData) : KeyData[i] = 46 /\ \A j \in 1..(i - 1) : KeyData[j] # 46
PayloadPart == SubSeq(KeyData, 1, FirstSeparator - 1)
SignaturePart == SubSeq(KeyData, FirstSeparator + 1, Len(KeyData))
\* the key reaches the signature gate
Separated == HasAlvanPrefix(licenseKey) /\ HasSeparator
SignatureMatches == Separated /\ SignaturePart = Hmac(validator.secretKey, PayloadPart)

\* the payload is two non-empty parts that parseInt reads as integers, both
\* positive, the second the greater
PayloadParts == Split(PayloadPart, 58)
PayloadParses ==
  /\ Len(PayloadParts) = 2
  /\ PayloadParts[1] # <<>> /\ PayloadParts[2] # <<>>
  /\ ~parseInt(PayloadParts[1]).nan /\ ~parseInt(PayloadParts[2]).nan
PayloadWellFormed ==
  /\ PayloadParses
  /\ parseInt(PayloadParts[1]).val > 0
  /\ parseInt(PayloadParts[2]).val > parseInt(PayloadParts[1]).val

\* the error of the first gate that fails, in the order format, decode,
\* structure, signature, payload parse, temporal; "" when every gate passes
FirstFailure ==
  IF ~HasAlvanPrefix(licenseKey) THEN "INVALID_FORMAT"
  ELSE IF ~HasSeparator THEN "INVALID_FORMAT"
  ELSE IF ~SignatureMatches THEN "INVALID_SIGNATURE"
  ELSE IF Len(PayloadParts) # 2 THEN "INVALID_FORMAT"
  ELSE IF ~PayloadParses THEN "TIME_ERROR"
  ELSE IF ~PayloadWellFormed THEN "INVALID_DATA"
  ELSE IF currentTime >= 1000 * parseInt(PayloadParts[2]).val THEN "EXPIRED"
  ELSE ""

\* C21: gate ordering -- a validation reports the error of the first gate
\* that fails in the order format, decode, structure, signature, payload
\* parse, temporal; a key whose signature does not match yields
\* INVALID_SIGNATURE whatever its payload, and EXPIRED is reported only for a
\* matching signature and a well-formed payload
C21_GateOrdering ==
  Validated
    => /\ IF FirstFailure = "" THEN result.kind = "LicenseInfo"
          ELSE IsError(FirstFailure)
       /\ (Separated /\ ~SignatureMatches) => IsError("INVALID_SIGNATURE")
       /\ IsError("EXPIRED") => (SignatureMatches /\ PayloadWellFormed)

\* C22: signature gate on length mismatch -- when the bytes after the first
\* '.' are not exactly 32 (fewer, more or none) the validation fails with
\* INVALID_SIGNATURE, as it does for 32 bytes of different content
C22_LengthMismatch ==
  (Validated /\ Separated /\ Len(SignaturePart) # 32)
    => IsError("INVALID_SIGNATURE")

\* C23: structure gate -- a prefixed key whose decoded bytes hold no 0x2E
\* (the bare prefix "alvan-" among them) fails with INVALID_FORMAT, decided
\* before any HMAC is computed
C23_StructureGate ==
  (Validated /\ HasAlvanPrefix(licenseKey) /\ ~HasSeparator)
    => (IsError("INVALID_FORMAT") /\ result.hmacs = 0)

\* the bare prefix "alvan-" was validated and refused at the structure gate
C23_Witness ==
  /\ Validated /\ HasAlvanPrefix(licenseKey) /\ ~HasSeparator
  /\ Len(licenseKey.str) = 6
  /\ IsError("INVALID_FORMAT") /\ result.gate = "structure" /\ result.hmacs = 0

\* C24: payload parse gate, numeric check -- for a correctly signed key
\* whose payload has exactly two segments, a segment that is not a base-10
\* integer (empty, not numeric, or digits followed by other characters)
\* makes the validation fail with TIME_ERROR
C24_NumericCheck ==
  ( /\ Validated /\ SignatureMatches /\ Len(PayloadParts) = 2
    /\ (~IsDecimal(PayloadParts[1]) \/ ~IsDecimal(PayloadParts[2])) )
    => IsError("TIME_ERROR")

\* the value of a decimal integer
DecimalValue(s) ==
  IF s # <<>> /\ Head(s) = 45 THEN -DigitsValue(Tail(s), 0) ELSE DigitsValue(s, 0)
TwoIntegers ==
  Len(PayloadParts) = 2 /\ IsDecimal(PayloadParts[1]) /\ IsDecimal(PayloadParts[2])

\* C25: payload parse gate, structure and semantics -- for a correctly
\* signed key, a payload that does not split on ':' into exactly two parts
\* fails with INVALID_FORMAT; two integers of which one is <= 0 fail with
\* INVALID_DATA; and expires_at <= issued_at fails with INVALID_DATA
C25_PayloadSemantics ==
  (Validated /\ SignatureMatches)
    => /\ Len(PayloadParts) # 2 => IsError("INVALID_FORMAT")
       /\ ( /\ TwoIntegers
            /\ \/ DecimalValue(PayloadParts[1]) <= 0
               \/ DecimalValue(PayloadParts[2]) <= 0 ) => IsError("INVALID_DATA")
       /\ ( /\ TwoIntegers
            /\ DecimalValue(PayloadParts[2]) <= DecimalValue(PayloadParts[1]) )
            => IsError("INVALID_DATA")

\* the signed payload "9:5" was validated before either instant and refused
\* with INVALID_DATA
C25_Witness ==
  /\ Validated /\ SignatureMatches
  /\ PayloadPart = <<57, 58, 53>> /\ currentTime = 1000
  /\ IsError("INVALID_DATA")

\* C26: for every key the generator returns, the split at the first 0x2E of
\* the decoded data gives back the generator's payload and its whole 32-byte
\* signature, also when the signature holds 0x2E bytes, because the payload
\* never holds one; the validator of the same secret gets past its
\* signature gate
C26_SplitRecovers ==
  Issued
    => /\ HasSeparator
       /\ \A i \in 1..Len(IssuedKey.payload) : IssuedKey.payload[i] # 46
       /\ PayloadPart = IssuedKey.payload
       /\ SignaturePart = IssuedKey.signature
       /\ Len(SignaturePart) = 32
       /\ (Validated /\ OwnSecret) => result.gate \notin {"structure", "signature"}

\* a key whose signature holds a 0x2E byte was validated under its secret
C26_Witness ==
  /\ Issued /\ Validated /\ OwnSecret
  /\ \E i \in 1..32 : SignaturePart[i] = 46
  /\ SignaturePart = IssuedKey.signature
  /\ result.gate \notin {"structure", "signature"}

Monotone(earlier, later) ==
  /\ (earlier.kind = "LicenseError" /\ earlier.type = "EXPIRED")
       => (later.kind = "LicenseError" /\ later.type = "EXPIRED")
  /\ later.kind = "LicenseInfo" => earlier.kind = "LicenseInfo"
\* a failure that is not EXPIRED
OtherFailure(r) ==
  r.kind \notin {"none", "LicenseInfo"} /\ ~(r.kind = "LicenseError" /\ r.type = "EXPIRED")

\* C28: the outcome is monotone in currentTime -- EXPIRED at t means EXPIRED
\* at every later time, success at t means success at every earlier time,
\* and a failure other than EXPIRED is the same kind of error at every time
C28_MonotoneOutcome ==
  (previous.result.kind # "none" /\ Validated)
    => /\ previous.currentTime <= currentTime => Monotone(previous.result, result)
       /\ currentTime <= previous.currentTime => Monotone(result, previous.result)
       /\ (OtherFailure(previous.result) \/ OtherFailure(result))
            => (result.kind = previous.result.kind /\ result.type = previous.result.type)

\* the signed payload "5:9" was refused as expired at 9 s and again at 20 s
C28_Witness ==
  /\ SignatureMatches /\ PayloadPart = <<53, 58, 57>>
  /\ previous.currentTime = 9000 /\ currentTime = 20000
  /\ previous.result.kind = "LicenseError" /\ previous.result.type = "EXPIRED"
  /\ IsError("EXPIRED")

\* C29: validateLicenseWithDetails never throws: for every licenseKey and
\* every secretKey, blank ones included, it returns an object, with valid =
\* true and non-null info exactly when validateKey succeeds under that
\* secret, and otherwise valid = false with a non-null error and null info
\* and details
C29_NeverThrows ==
  detailed.called =>
    /\ ~detailed.threw
    /\ (detailed.valid /\ detailed.hasInfo)
         <=> ( /\ Construct(detailed.secretKey).status = "ok"
               /\ validateKeyAtTime(detailed.secretKey, detailed.licenseKey,
                                     detailed.now).kind = "LicenseInfo" )
    /\ ~detailed.valid => detailed.hasError /\ ~detailed.hasInfo /\ ~detailed.hasDetails

\* C30: hasValidLicenseFormat is a sound pre-filter: every license key that
\* validation accepts (validateKey returns a LicenseInfo for it under the
\* validator's secret), the tokens of generateKeyWithTimestamp included,
\* makes hasValidLicenseFormat return true
C30_SoundPreFilter ==
  (Validated /\ result.kind = "LicenseInfo") => hasValidLicenseFormat(licenseKey)
====
